---- MODULE Spec2Model ----
(***************************************************************************)
(* A model of package chancell: an unbounded queue made of a chain of      *)
(* bounded Go channels.  The repository holds two revisions of the         *)
(* package.  Both have the same ChanCellTail (producer side).  They differ *)
(* on the consumer side:                                                   *)
(*   impl = "cell" : src/unnamed/part_000, ChanCell.Next with a per-cell   *)
(*                   drained flag;                                         *)
(*   impl = "head" : src/chancell.go, ChanCellHead with its own RWMutex.   *)
(* Init picks the revision; it never changes afterwards.                   *)
(*                                                                         *)
(* The client (initializer, attempt callback, consumer loop) is the actor  *)
(* of src/README.md.  Its channel make(chan myactorMsg, n) is modelled     *)
(* with at most MaxChanLen slots: the package never looks into the         *)
(* channel, and n itself (the value handed to the initializer) is kept     *)
(* exactly.  n is a Go int; it would overflow after 59 doublings, far      *)
(* beyond any chain modelled here.                                         *)
(*                                                                         *)
(* Locks.  The tail's sync.RWMutex is modelled by its holders (tailW,      *)
(* tailR), as a plain readers-writer lock: Go also keeps new readers out   *)
(* while a writer waits, which only removes behaviours.  A ChanCell's      *)
(* sync.Mutex guards next and drained only, in sections that do not block: *)
(* each such section is one atomic step.  The head's read section          *)
(* (ChanCellHead.WithCell) is one atomic step too; its write lock is       *)
(* modelled by its holder (headW).                                         *)
(*                                                                         *)
(* A local variable is reset when it goes out of scope.                    *)
(***************************************************************************)
EXTENDS Integers, Sequences, FiniteSets, TLC

\* ---------------------------------------------------------------- bounds
Producers == {"p1", "p2"}
Consumers == {"c1", "c2"}
TermProc == "t"
NoProc == "none"

\* calls of WithCell one producer makes
MaxCalls == 2
\* slots of one modelled channel (the real one has n slots)
MaxChanLen == 1

\* ------------------------------------------------------ program constants
DefaultChanLength == 16

\* a nil *ChanCell
Nil == 0
\* the CurCellConsumer of README's enqueueMsg: it calls the actor's latest
\* enqueueMsgInner.  A value c > 0 is the enqueueMsgInner closure made by the
\* initializer for cell c, called with README's f as its continuation.
ReadmeF == 0
\* a nil CurCellConsumer
NilFun == 0 - 1

VARIABLES
    impl,        \* "cell" or "head": which revision of the package runs
    cells,       \* the ChanCell structs ever allocated: [next, drained]
    chans,       \* the client's channel of each cell: [buf, closed, len]
    initArg,     \* n as passed to initNewChanCell for each cell
    opens,       \* number of invocations of each cell's Open
    closes,      \* number of invocations of each cell's Close
    tailCell,    \* ChanCellTail.cell
    tailN,       \* ChanCellTail.n
    tailW,       \* holder of ChanCellTail's write lock
    tailR,       \* holders of ChanCellTail's read lock
    Terminated,  \* ChanCellTail.Terminated has been closed
    headCell,    \* ChanCellHead.cell (impl = "head")
    headW,       \* holder of ChanCellHead's write lock
    actorInner,  \* README actor.enqueueMsgInner: the cell its closure captured
    actorChan,   \* README actor.msgChan: the cell whose channel Open stashed
    pc,          \* position of every goroutine
    fun,         \* WithCell's fun
    rd,          \* WithCell's cell / expand's read
    ok,          \* WithCell's success
    newFun,      \* WithCell's newFun
    newCell,     \* expand's newCell
    calls,       \* WithCell calls begun by each producer
    ret,         \* what the producer's last WithCell call returned
    recv,        \* receiver of the running ChanCell.Next / current of Head.Next
    nxt,         \* Next's local next
    ccell,       \* consumer's msgCell
    cchan,       \* consumer's msgChan (the cell whose channel it is)
    observed,    \* messages in the order the consumers received them
    returned,    \* messages whose WithCell call has returned true
    before,      \* per message under way: the messages that had been
                 \* returned when its call began and are not yet observed
    lateCall,    \* per producer: its running call began after Terminate returned
    advFrom      \* per consumer: the cell its last finished Next call was made on

vars == <<impl, cells, chans, initArg, opens, closes, tailCell, tailN, tailW,
          tailR, Terminated, headCell, headW, actorInner, actorChan, pc, fun,
          rd, ok, newFun, newCell, calls, ret, recv, nxt, ccell, cchan,
          observed, returned, before, lateCall, advFrom>>

coreVars == <<cells, chans, initArg, opens, closes, tailCell, tailN,
              actorInner, actorChan, headCell>>
tailLockVars == <<tailW, tailR>>
prodVars == <<fun, rd, ok, newFun, newCell, calls, ret>>
consVars == <<recv, nxt, ccell, cchan>>
ghostVars == <<returned, before, lateCall, advFrom>>

\* the messages the consumers have received
Seen == {observed[i] : i \in 1..Len(observed)}

Procs == Producers \cup Consumers \cup {TermProc}
Msgs == Producers \X (1..MaxCalls)
CellIds == 1..Len(cells)

\* the message the producer's running call carries
MsgOf(p) == <<p, calls[p]>>

\* a goroutine has panicked: the Go runtime ends the program, and with it
\* every goroutine
Crashed == \A q \in Procs : pc[q] = "panic"
Panic == [q \in Procs |-> "panic"]

\* make(chan myactorMsg, n), cut to the modelled number of slots
ChanLen(n) == IF n < MaxChanLen THEN n ELSE MaxChanLen

\* new(ChanCell)
NewCell == [next |-> Nil, drained |-> FALSE]

\* README's initializer: a fresh channel of n slots for the cell
NewChan(n) == [buf |-> <<>>, closed |-> FALSE, len |-> ChanLen(n)]

\* ------------------------------------------------------------------ Init
\* NewChanCellTail: one cell, initialised with n = DefaultChanLength and
\* opened; both cursors on it.  Every goroutine is outside the package.
Init ==
    /\ impl \in {"cell", "head"}
    /\ cells = <<NewCell>>
    /\ chans = <<NewChan(DefaultChanLength)>>
    /\ initArg = <<DefaultChanLength>>
    /\ opens = <<1>>
    /\ closes = <<0>>
    /\ tailCell = 1
    /\ tailN = DefaultChanLength
    /\ tailW = NoProc
    /\ tailR = {}
    /\ Terminated = FALSE
    /\ headCell = IF impl = "head" THEN 1 ELSE Nil
    /\ headW = NoProc
    /\ actorInner = 1
    /\ actorChan = 1
    /\ pc = [q \in Procs |->
               IF q \in Consumers
               THEN (IF impl = "head" THEN "h_with" ELSE "read")
               ELSE "idle"]
    /\ fun = [p \in Producers |-> NilFun]
    /\ rd = [p \in Producers |-> Nil]
    /\ ok = [p \in Producers |-> FALSE]
    /\ newFun = [p \in Producers |-> NilFun]
    /\ newCell = [p \in Producers |-> Nil]
    /\ calls = [p \in Producers |-> 0]
    /\ ret = [p \in Producers |-> "none"]
    /\ recv = [c \in Consumers |-> Nil]
    /\ nxt = [c \in Consumers |-> Nil]
    /\ ccell = [c \in Consumers |-> IF impl = "head" THEN Nil ELSE 1]
    /\ cchan = [c \in Consumers |-> IF impl = "head" THEN Nil ELSE 1]
    /\ observed = <<>>
    /\ returned = {}
    /\ before = [m \in {} |-> {}]
    /\ lateCall = [p \in Producers |-> FALSE]
    /\ advFrom = [c \in Consumers |-> Nil]

\* ------------------------------------------------- ChanCellTail.WithCell
\* The callers of README's enqueueMsg: a producer begins a WithCell call
\* with README's f, or with an enqueueMsgInner closure it holds.
BeginWithCell(p, f) ==
    /\ pc[p] \in {"idle", "waited"}
    /\ calls[p] < MaxCalls
    /\ calls' = [calls EXCEPT ![p] = @ + 1]
    /\ fun' = [fun EXCEPT ![p] = f]
    /\ pc' = [pc EXCEPT ![p] = "w_rlock"]
    /\ before' = [m \in DOMAIN before \cup {<<p, calls[p] + 1>>} |->
                     IF m \in DOMAIN before THEN before[m]
                     ELSE returned \ Seen]
    /\ lateCall' = [lateCall EXCEPT ![p] = (pc[TermProc] = "done")]
    /\ UNCHANGED <<impl, coreVars, tailLockVars, Terminated, headW, rd, ok,
                   newFun, newCell, ret, consVars, observed, returned,
                   advFrom>>

\* tail.RLock(); cell := tail.cell; cell == nil: tail.RUnlock(); return false
WithCellClosed(p) ==
    /\ pc[p] = "w_rlock"
    /\ tailW = NoProc
    /\ tailCell = Nil
    /\ ret' = [ret EXCEPT ![p] = "false"]
    /\ pc' = [pc EXCEPT ![p] = "idle"]
    /\ fun' = [fun EXCEPT ![p] = NilFun]
    /\ rd' = [rd EXCEPT ![p] = Nil]
    /\ before' = [m \in DOMAIN before \ {MsgOf(p)} |-> before[m]]
    /\ UNCHANGED <<impl, coreVars, tailLockVars, Terminated, headW, ok,
                   newFun, newCell, calls, consVars, observed, returned,
                   lateCall, advFrom>>

\* a WithCell that reads tail.cell without waiting for the writer to unlock
WithCellReadUnlocked(p) ==
    /\ pc[p] = "w_rlock"
    /\ tailCell # Nil
    /\ tailR' = tailR \cup {p}
    /\ rd' = [rd EXCEPT ![p] = tailCell]
    /\ pc' = [pc EXCEPT ![p] = "w_call"]
    /\ UNCHANGED <<impl, coreVars, tailW, Terminated, headW, fun, ok, newFun,
                   newCell, calls, ret, consVars, observed, ghostVars>>

\* a WithCell that unlocks as soon as it has read tail.cell, before the
\* attempt is invoked
WithCellReadThenUnlock(p) ==
    /\ pc[p] = "w_rlock"
    /\ tailW = NoProc
    /\ tailCell # Nil
    /\ rd' = [rd EXCEPT ![p] = tailCell]
    /\ pc' = [pc EXCEPT ![p] = "w_call"]
    /\ UNCHANGED <<impl, coreVars, tailLockVars, Terminated, headW, fun, ok,
                   newFun, newCell, calls, ret, consVars, observed, ghostVars>>

\* tail.RLock(); cell := tail.cell; cell != nil
WithCellRead(p) ==
    /\ pc[p] = "w_rlock"
    /\ tailW = NoProc
    /\ tailCell # Nil
    /\ tailR' = tailR \cup {p}
    /\ rd' = [rd EXCEPT ![p] = tailCell]
    /\ pc' = [pc EXCEPT ![p] = "w_call"]
    /\ UNCHANGED <<impl, coreVars, tailW, Terminated, headW, fun, ok, newFun,
                   newCell, calls, ret, consVars, observed, ghostVars>>

\* The cell whose enqueueMsgInner closure the callback f runs: README's f
\* reads actor.enqueueMsgInner when it is called.
InnerOf(f) == IF f = ReadmeF THEN actorInner ELSE f

\* an enqueueMsgInner that sends on its own channel without comparing
\* curCell with its cell
AttemptUnchecked(p) ==
    /\ pc[p] = "w_call"
    /\ LET mine == InnerOf(fun[p])
       IN IF chans[mine].closed
          THEN /\ pc' = Panic
               /\ UNCHANGED <<chans, ok, newFun>>
          ELSE IF Len(chans[mine].buf) < chans[mine].len
               THEN /\ chans' = [chans EXCEPT
                                   ![mine].buf = Append(@, MsgOf(p))]
                    /\ ok' = [ok EXCEPT ![p] = TRUE]
                    /\ newFun' = [newFun EXCEPT ![p] = NilFun]
                    /\ pc' = [pc EXCEPT ![p] = "w_runlock"]
               ELSE /\ ok' = [ok EXCEPT ![p] = FALSE]
                    /\ newFun' = [newFun EXCEPT ![p] = NilFun]
                    /\ pc' = [pc EXCEPT ![p] = "w_runlock"]
                    /\ UNCHANGED chans
    /\ UNCHANGED <<impl, cells, initArg, opens, closes, tailCell, tailN,
                   actorInner, actorChan, headCell, tailLockVars, Terminated,
                   headW, fun, rd, newCell, calls, ret, consVars, observed,
                   ghostVars>>

\* success, newFun := fun(cell), with README's enqueueMsgInner: a
\* non-blocking send when curCell is the closure's cell, else (false, cont).
\* A send on a closed channel panics.
Attempt(p) ==
    /\ pc[p] = "w_call"
    /\ LET c == rd[p]
           mine == InnerOf(fun[p])
       IN IF c = mine
          THEN IF chans[c].closed
               THEN /\ pc' = Panic
                    /\ UNCHANGED <<chans, ok, newFun>>
               ELSE IF Len(chans[c].buf) < chans[c].len
                    THEN /\ chans' = [chans EXCEPT
                                        ![c].buf = Append(@, MsgOf(p))]
                         /\ ok' = [ok EXCEPT ![p] = TRUE]
                         /\ newFun' = [newFun EXCEPT ![p] = NilFun]
                         /\ pc' = [pc EXCEPT ![p] = "w_runlock"]
                    ELSE /\ ok' = [ok EXCEPT ![p] = FALSE]
                         /\ newFun' = [newFun EXCEPT ![p] = NilFun]
                         /\ pc' = [pc EXCEPT ![p] = "w_runlock"]
                         /\ UNCHANGED chans
          ELSE /\ ok' = [ok EXCEPT ![p] = FALSE]
               /\ newFun' = [newFun EXCEPT ![p] = ReadmeF]
               /\ pc' = [pc EXCEPT ![p] = "w_runlock"]
               /\ UNCHANGED chans
    /\ UNCHANGED <<impl, cells, initArg, opens, closes, tailCell, tailN,
                   actorInner, actorChan, headCell, tailLockVars, Terminated,
                   headW, fun, rd, newCell, calls, ret, consVars, observed,
                   ghostVars>>

\* tail.RUnlock(); if success { return true }
WithCellSuccess(p) ==
    /\ pc[p] = "w_runlock"
    /\ ok[p]
    /\ tailR' = tailR \ {p}
    /\ ret' = [ret EXCEPT ![p] = "true"]
    /\ returned' = returned \cup {MsgOf(p)}
    /\ pc' = [pc EXCEPT ![p] = "idle"]
    /\ fun' = [fun EXCEPT ![p] = NilFun]
    /\ rd' = [rd EXCEPT ![p] = Nil]
    /\ ok' = [ok EXCEPT ![p] = FALSE]
    /\ UNCHANGED <<impl, coreVars, tailW, Terminated, headW, newFun, newCell,
                   calls, consVars, observed, before, lateCall, advFrom>>

\* a full cell met by trying again without growing the chain
WithCellFullRetry(p) ==
    /\ pc[p] = "w_runlock"
    /\ ~ok[p]
    /\ newFun[p] = NilFun
    /\ tailR' = tailR \ {p}
    /\ pc' = [pc EXCEPT ![p] = "w_rlock"]
    /\ UNCHANGED <<impl, coreVars, tailW, Terminated, headW, prodVars,
                   consVars, observed, ghostVars>>

\* a full cell reported to the caller as a failure
WithCellFullGiveUp(p) ==
    /\ pc[p] = "w_runlock"
    /\ ~ok[p]
    /\ newFun[p] = NilFun
    /\ tailR' = tailR \ {p}
    /\ ret' = [ret EXCEPT ![p] = "false"]
    /\ pc' = [pc EXCEPT ![p] = "idle"]
    /\ fun' = [fun EXCEPT ![p] = NilFun]
    /\ rd' = [rd EXCEPT ![p] = Nil]
    /\ before' = [m \in DOMAIN before \ {MsgOf(p)} |-> before[m]]
    /\ UNCHANGED <<impl, coreVars, tailW, Terminated, headW, ok, newFun,
                   newCell, calls, consVars, observed, returned, lateCall,
                   advFrom>>

\* tail.RUnlock(); newFun == nil: tail.expand(cell)
WithCellFull(p) ==
    /\ pc[p] = "w_runlock"
    /\ ~ok[p]
    /\ newFun[p] = NilFun
    /\ tailR' = tailR \ {p}
    /\ pc' = [pc EXCEPT ![p] = "e_lock"]
    /\ UNCHANGED <<impl, coreVars, tailW, Terminated, headW, prodVars,
                   consVars, observed, ghostVars>>

\* a WithCell that also grows the chain when the attempt hands back a
\* continuation
WithCellStaleGrow(p) ==
    /\ pc[p] = "w_runlock"
    /\ ~ok[p]
    /\ newFun[p] # NilFun
    /\ tailR' = tailR \ {p}
    /\ fun' = [fun EXCEPT ![p] = newFun[p]]
    /\ newFun' = [newFun EXCEPT ![p] = NilFun]
    /\ pc' = [pc EXCEPT ![p] = "e_lock"]
    /\ UNCHANGED <<impl, coreVars, tailW, Terminated, headW, rd, ok, newCell,
                   calls, ret, consVars, observed, ghostVars>>

\* tail.RUnlock(); newFun != nil: fun = newFun, and round the loop
WithCellStale(p) ==
    /\ pc[p] = "w_runlock"
    /\ ~ok[p]
    /\ newFun[p] # NilFun
    /\ tailR' = tailR \ {p}
    /\ fun' = [fun EXCEPT ![p] = newFun[p]]
    /\ newFun' = [newFun EXCEPT ![p] = NilFun]
    /\ pc' = [pc EXCEPT ![p] = "w_rlock"]
    /\ UNCHANGED <<impl, coreVars, tailW, Terminated, headW, rd, ok, newCell,
                   calls, ret, consVars, observed, ghostVars>>

\* --------------------------------------------------- ChanCellTail.expand
\* expand without its re-check
GrowRegardless(read) == TRUE

\* if tail.cell == read
StillCurrent(read) == tailCell = read

\* growth by a fixed step instead of doubling
AddDefault(n) == n + DefaultChanLength

\* tail.n *= 2
DoubleN(n) == n * 2

\* tail.Lock(); tail.cell == read: newCell := new(ChanCell); tail.n *= 2;
\* tail.initNewChanCell(tail.n, newCell).  README's initializer makes the
\* channel and replaces actor.enqueueMsgInner.
ExpandNew(p) ==
    /\ pc[p] = "e_lock"
    /\ tailW = NoProc
    /\ tailR = {}
    /\ StillCurrent(rd[p])
    /\ tailW' = p
    /\ cells' = Append(cells, NewCell)
    /\ tailN' = DoubleN(tailN)
    /\ chans' = Append(chans, NewChan(tailN'))
    /\ initArg' = Append(initArg, tailN')
    /\ opens' = Append(opens, 0)
    /\ closes' = Append(closes, 0)
    /\ actorInner' = Len(cells) + 1
    /\ newCell' = [newCell EXCEPT ![p] = Len(cells) + 1]
    /\ pc' = [pc EXCEPT ![p] = "e_link"]
    /\ UNCHANGED <<impl, tailCell, actorChan, headCell, tailR, Terminated,
                   headW, fun, rd, ok, newFun, calls, ret, consVars, observed,
                   ghostVars>>

\* tail.Lock(); tail.cell != read: nothing but tail.Unlock() is left to do
ExpandSkip(p) ==
    /\ pc[p] = "e_lock"
    /\ tailW = NoProc
    /\ tailR = {}
    /\ ~StillCurrent(rd[p])
    /\ tailW' = p
    /\ pc' = [pc EXCEPT ![p] = "e_unlock"]
    /\ UNCHANGED <<impl, coreVars, tailR, Terminated, headW, prodVars,
                   consVars, observed, ghostVars>>

\* an expand that leaves read.next unset
ExpandWithoutLink(p) ==
    /\ pc[p] = "e_link"
    /\ pc' = [pc EXCEPT ![p] = "e_pub"]
    /\ UNCHANGED <<impl, coreVars, tailLockVars, Terminated, headW, prodVars,
                   consVars, observed, ghostVars>>

\* read.Lock(); read.next = newCell; read.Unlock()
ExpandLink(p) ==
    /\ pc[p] = "e_link"
    /\ cells' = [cells EXCEPT ![rd[p]].next = newCell[p]]
    /\ pc' = [pc EXCEPT ![p] = "e_pub"]
    /\ UNCHANGED <<impl, chans, initArg, opens, closes, tailCell, tailN,
                   actorInner, actorChan, headCell, tailLockVars, Terminated,
                   headW, prodVars, consVars, observed, ghostVars>>

\* tail.cell = newCell
ExpandPublish(p) ==
    /\ pc[p] = "e_pub"
    /\ tailCell' = newCell[p]
    /\ pc' = [pc EXCEPT ![p] = "e_close"]
    /\ UNCHANGED <<impl, cells, chans, initArg, opens, closes, tailN,
                   actorInner, actorChan, headCell, tailLockVars, Terminated,
                   headW, prodVars, consVars, observed, ghostVars>>

\* Close called on the new cell instead of the one that is full
ExpandCloseNew(p) ==
    /\ pc[p] = "e_close"
    /\ closes' = [closes EXCEPT ![newCell[p]] = @ + 1]
    /\ chans' = [chans EXCEPT ![newCell[p]].closed = TRUE]
    /\ pc' = [pc EXCEPT ![p] = "e_unlock"]
    /\ UNCHANGED <<impl, cells, initArg, opens, tailCell, tailN, actorInner,
                   actorChan, headCell, tailLockVars, Terminated, headW,
                   prodVars, consVars, observed, ghostVars>>

\* read.Close(): README's close(msgChan); closing a closed channel panics
ExpandClose(p) ==
    /\ pc[p] = "e_close"
    /\ closes' = [closes EXCEPT ![rd[p]] = @ + 1]
    /\ IF chans[rd[p]].closed
       THEN /\ pc' = Panic
            /\ UNCHANGED chans
       ELSE /\ chans' = [chans EXCEPT ![rd[p]].closed = TRUE]
            /\ pc' = [pc EXCEPT ![p] = "e_unlock"]
    /\ UNCHANGED <<impl, cells, initArg, opens, tailCell, tailN, actorInner,
                   actorChan, headCell, tailLockVars, Terminated, headW,
                   prodVars, consVars, observed, ghostVars>>

\* tail.Unlock(), and WithCell goes round its loop
ExpandUnlock(p) ==
    /\ pc[p] = "e_unlock"
    /\ tailW' = NoProc
    /\ newCell' = [newCell EXCEPT ![p] = Nil]
    /\ pc' = [pc EXCEPT ![p] = "w_rlock"]
    /\ UNCHANGED <<impl, coreVars, tailR, Terminated, headW, fun, rd, ok,
                   newFun, calls, ret, consVars, observed, ghostVars>>

\* ------------------------------------------------ ChanCellTail.Terminate
\* tail.Lock().  Terminate is called once (a second call is a caller error).
TerminateLock ==
    /\ pc[TermProc] = "idle"
    /\ tailW = NoProc
    /\ tailR = {}
    /\ tailW' = TermProc
    /\ pc' = [pc EXCEPT ![TermProc] = "t_set"]
    /\ UNCHANGED <<impl, coreVars, tailR, Terminated, headW, prodVars,
                   consVars, observed, ghostVars>>

\* a Terminate that also closes the channel of the cell it cuts off
TerminateSetClosing ==
    /\ pc[TermProc] = "t_set"
    /\ tailCell' = Nil
    /\ tailW' = NoProc
    /\ pc' = [pc EXCEPT ![TermProc] = "t_close"]
    /\ closes' = [closes EXCEPT ![tailCell] = @ + 1]
    /\ chans' = [chans EXCEPT ![tailCell].closed = TRUE]
    /\ UNCHANGED <<impl, cells, initArg, opens, tailN, actorInner, actorChan,
                   headCell, tailR, Terminated, headW, prodVars, consVars,
                   observed, ghostVars>>

\* tail.cell = nil; tail.Unlock()
TerminateSet ==
    /\ pc[TermProc] = "t_set"
    /\ tailCell' = Nil
    /\ tailW' = NoProc
    /\ pc' = [pc EXCEPT ![TermProc] = "t_close"]
    /\ UNCHANGED <<impl, cells, chans, initArg, opens, closes, tailN,
                   actorInner, actorChan, headCell, tailR, Terminated, headW,
                   prodVars, consVars, observed, ghostVars>>

\* close(tail.Terminated)
TerminateClose ==
    /\ pc[TermProc] = "t_close"
    /\ Terminated' = TRUE
    /\ pc' = [pc EXCEPT ![TermProc] = "done"]
    /\ UNCHANGED <<impl, coreVars, tailLockVars, headW, prodVars, consVars,
                   observed, ghostVars>>

\* ----------------------------------------------------- ChanCellTail.Wait
\* a caller enters Wait
WaitBegin(p) ==
    /\ pc[p] = "idle"
    /\ pc' = [pc EXCEPT ![p] = "wait"]
    /\ UNCHANGED <<impl, coreVars, tailLockVars, Terminated, headW, prodVars,
                   consVars, observed, ghostVars>>

\* a Wait that returns whether or not Terminated is closed
WaitReturnAnyTime(p) ==
    /\ pc[p] = "wait"
    /\ pc' = [pc EXCEPT ![p] = "waited"]
    /\ UNCHANGED <<impl, coreVars, tailLockVars, Terminated, headW, prodVars,
                   consVars, observed, ghostVars>>

\* <-tail.Terminated
WaitReturn(p) ==
    /\ pc[p] = "wait"
    /\ Terminated
    /\ pc' = [pc EXCEPT ![p] = "waited"]
    /\ UNCHANGED <<impl, coreVars, tailLockVars, Terminated, headW, prodVars,
                   consVars, observed, ghostVars>>

\* ------------------------------------------------- the consumer's loop
\* README's actorLoop: msg, ok := <-msgChan with a message in the channel
Receive(c) ==
    /\ pc[c] = "read"
    /\ cchan[c] # Nil
    /\ chans[cchan[c]].buf # <<>>
    /\ LET m == Head(chans[cchan[c]].buf)
       IN /\ observed' = Append(observed, m)
          /\ before' = [x \in DOMAIN before \ {m} |-> before[x] \ {m}]
    /\ chans' = [chans EXCEPT ![cchan[c]].buf = Tail(@)]
    /\ UNCHANGED <<impl, cells, initArg, opens, closes, tailCell, tailN,
                   actorInner, actorChan, headCell, tailLockVars, Terminated,
                   headW, pc, prodVars, consVars, returned, lateCall,
                   advFrom>>

\* msg, ok := <-msgChan with ok false: the channel is closed and empty, so
\* the consumer calls Next on its cell
SeeClosed(c) ==
    /\ pc[c] = "read"
    /\ cchan[c] # Nil
    /\ chans[cchan[c]].buf = <<>>
    /\ chans[cchan[c]].closed
    /\ recv' = [recv EXCEPT ![c] = ccell[c]]
    /\ pc' = [pc EXCEPT ![c] = IF impl = "head" THEN "h_lock" ELSE "n_body"]
    /\ UNCHANGED <<impl, coreVars, tailLockVars, Terminated, headW, prodVars,
                   nxt, ccell, cchan, observed, ghostVars>>

\* cell.Open() as README's initializer sets it: actor.msgChan = msgChan
Open(c) ==
    /\ opens' = [opens EXCEPT ![c] = @ + 1]
    /\ actorChan' = c

\* ------------------------------------------- ChanCell.Next (impl "cell")
\* Next without its drained check
OpenRegardless(cell) == TRUE

\* if !cell.drained
NotDrained(cell) == ~cells[cell].drained

\* cell.Lock(); next := cell.next; if !cell.drained { cell.drained = true;
\* next.Open() }; cell.Unlock().  With next nil, next.Open() (or the
\* next.Lock() that follows) dereferences nil and panics.
NextBody(c) ==
    /\ pc[c] = "n_body"
    /\ LET cell == recv[c]
           next == cells[cell].next
       IN IF next = Nil
          THEN /\ pc' = Panic
               /\ cells' = [cells EXCEPT ![cell].drained = TRUE]
               /\ UNCHANGED <<opens, actorChan, nxt>>
          ELSE /\ nxt' = [nxt EXCEPT ![c] = next]
               /\ pc' = [pc EXCEPT ![c] = "n_chk"]
               /\ IF NotDrained(cell)
                  THEN /\ cells' = [cells EXCEPT ![cell].drained = TRUE]
                       /\ Open(next)
                  ELSE UNCHANGED <<cells, opens, actorChan>>
    /\ UNCHANGED <<impl, chans, initArg, closes, tailCell, tailN, actorInner,
                   headCell, tailLockVars, Terminated, headW, prodVars, recv,
                   ccell, cchan, observed, ghostVars>>

\* a successor that is sealed already, which is not what Next asks about
NextDrainedIfSealed(next) == cells[next].next # Nil

\* a Next that takes every successor for drained
NextAlwaysDrained(next) == TRUE

\* a Next without skip-ahead: it returns the successor, drained or not
NextNeverDrained(next) == FALSE

\* next.Lock(); nextDrained := next.drained; next.Unlock()
NextDrained(next) == cells[next].drained

\* nextDrained: return next.Next()
NextSkip(c) ==
    /\ pc[c] = "n_chk"
    /\ NextDrained(nxt[c])
    /\ recv' = [recv EXCEPT ![c] = nxt[c]]
    /\ pc' = [pc EXCEPT ![c] = "n_body"]
    /\ UNCHANGED <<impl, coreVars, tailLockVars, Terminated, headW, prodVars,
                   nxt, ccell, cchan, observed, ghostVars>>

\* !nextDrained: return next.  The consumer goes on with the returned cell
\* and the channel its initializer attached to it.
NextReturn(c) ==
    /\ pc[c] = "n_chk"
    /\ ~NextDrained(nxt[c])
    /\ ccell' = [ccell EXCEPT ![c] = nxt[c]]
    /\ cchan' = [cchan EXCEPT ![c] = nxt[c]]
    /\ recv' = [recv EXCEPT ![c] = Nil]
    /\ nxt' = [nxt EXCEPT ![c] = Nil]
    /\ advFrom' = [advFrom EXCEPT ![c] = ccell[c]]
    /\ pc' = [pc EXCEPT ![c] = "read"]
    /\ UNCHANGED <<impl, coreVars, tailLockVars, Terminated, headW, prodVars,
                   observed, returned, before, lateCall>>

\* --------------------------------------------- ChanCellHead (impl "head")
\* ChanCellHead.WithCell with README's nextChanFun: head.RLock();
\* msgChan, msgCell = self.msgChan, head.cell; head.RUnlock()
HeadWithCell(c) ==
    /\ pc[c] = "h_with"
    /\ headW = NoProc
    /\ ccell' = [ccell EXCEPT ![c] = headCell]
    /\ cchan' = [cchan EXCEPT ![c] = actorChan]
    /\ advFrom' = [advFrom EXCEPT ![c] = ccell[c]]
    /\ pc' = [pc EXCEPT ![c] = "read"]
    /\ UNCHANGED <<impl, coreVars, tailLockVars, Terminated, headW, prodVars,
                   recv, nxt, observed, returned, before, lateCall>>

\* ChanCellHead.Next: head.Lock()
HeadLock(c) ==
    /\ pc[c] = "h_lock"
    /\ headW = NoProc
    /\ headW' = c
    /\ pc' = [pc EXCEPT ![c] = "h_body"]
    /\ UNCHANGED <<impl, coreVars, tailLockVars, Terminated, prodVars,
                   consVars, observed, ghostVars>>

\* Head.Next without its check of the head
AdvanceRegardless(current) == TRUE

\* if head.cell == current
HeadIsCurrent(current) == headCell = current

\* current.Lock(); next := current.next; current.Unlock(); head.cell = next;
\* next.Open().  With next nil, next.Open() dereferences nil and panics.
HeadAdvance(c) ==
    /\ pc[c] = "h_body"
    /\ HeadIsCurrent(recv[c])
    /\ LET next == cells[recv[c]].next
       IN /\ headCell' = next
          /\ nxt' = [nxt EXCEPT ![c] = next]
          /\ IF next = Nil
             THEN /\ pc' = Panic
                  /\ UNCHANGED <<opens, actorChan>>
             ELSE /\ pc' = [pc EXCEPT ![c] = "h_unlock"]
                  /\ Open(next)
    /\ UNCHANGED <<impl, cells, chans, initArg, closes, tailCell, tailN,
                   actorInner, tailLockVars, Terminated, headW, prodVars,
                   recv, ccell, cchan, observed, ghostVars>>

\* head.cell != current: another consumer has advanced the head already
HeadStale(c) ==
    /\ pc[c] = "h_body"
    /\ ~HeadIsCurrent(recv[c])
    /\ pc' = [pc EXCEPT ![c] = "h_unlock"]
    /\ UNCHANGED <<impl, coreVars, tailLockVars, Terminated, headW, prodVars,
                   consVars, observed, ghostVars>>

\* head.Unlock(); head.WithCell(fun) follows
HeadUnlock(c) ==
    /\ pc[c] = "h_unlock"
    /\ headW' = NoProc
    /\ recv' = [recv EXCEPT ![c] = Nil]
    /\ nxt' = [nxt EXCEPT ![c] = Nil]
    /\ pc' = [pc EXCEPT ![c] = "h_with"]
    /\ UNCHANGED <<impl, coreVars, tailLockVars, Terminated, prodVars, ccell,
                   cchan, observed, ghostVars>>

\* ------------------------------------------------------------------ Next
ProducerStep(p) ==
    \/ \E f \in {ReadmeF} \cup CellIds : BeginWithCell(p, f)
    \/ WithCellClosed(p)
    \/ WithCellRead(p)
    \/ Attempt(p)
    \/ WithCellSuccess(p)
    \/ WithCellFull(p)
    \/ WithCellStale(p)
    \/ ExpandNew(p)
    \/ ExpandSkip(p)
    \/ ExpandLink(p)
    \/ ExpandPublish(p)
    \/ ExpandClose(p)
    \/ ExpandUnlock(p)

TerminateStep ==
    \/ TerminateLock
    \/ TerminateSet
    \/ TerminateClose

ConsumerStep(c) ==
    \/ Receive(c)
    \/ SeeClosed(c)
    \/ NextBody(c)
    \/ NextSkip(c)
    \/ NextReturn(c)
    \/ HeadWithCell(c)
    \/ HeadLock(c)
    \/ HeadAdvance(c)
    \/ HeadStale(c)
    \/ HeadUnlock(c)

Next ==
    \/ \E p \in Producers : ProducerStep(p)
    \/ TerminateStep
    \/ \E c \in Consumers : ConsumerStep(c)

Spec == Init /\ [][Next]_vars

\* The program with a single consumer goroutine (the other one never runs).
TheConsumer == "c1"

\* A sole consumer is the only one to set drained and the only one to move
\* the head, so at line 31 of ChanCell.Next it reads nextDrained false and
\* at line 33 of ChanCellHead.Next it finds head.cell == current: the
\* branches NextSkip and HeadStale have no step to offer it
\* (SoleConsumerNeverLate, an invariant of the specifications below).
SoleConsumerStep(c) ==
    \/ Receive(c)
    \/ SeeClosed(c)
    \/ NextBody(c)
    \/ NextReturn(c)
    \/ HeadWithCell(c)
    \/ HeadLock(c)
    \/ HeadAdvance(c)
    \/ HeadUnlock(c)

SoleConsumerNeverLate ==
    /\ pc[TheConsumer] = "n_chk" => ~NextDrained(nxt[TheConsumer])
    /\ pc[TheConsumer] = "h_body" => HeadIsCurrent(recv[TheConsumer])

NextOneConsumer ==
    \/ \E p \in Producers : ProducerStep(p)
    \/ TerminateStep
    \/ SoleConsumerStep(TheConsumer)

\* The program with callers of Wait.  Wait changes nothing but its caller's
\* position, so Spec leaves it out.
WaitStep(p) ==
    \/ WaitBegin(p)
    \/ WaitReturn(p)

NextWithWait ==
    \/ NextOneConsumer
    \/ \E p \in Producers : WaitStep(p)

SpecWait == Init /\ [][NextWithWait]_vars

\* The single consumer keeps reading: its goroutine is scheduled as long as
\* it has a step to take.  Nothing is asked of the producers.
FairConsumer ==
    /\ Init
    /\ [][NextOneConsumer]_vars
    /\ WF_vars(SoleConsumerStep(TheConsumer))

\* Fair scheduling of the producers and of the caller of Terminate, once
\* they are inside the package.  Nothing is asked of the consumer, which
\* may read or not.
FairProducers ==
    /\ Init
    /\ [][NextOneConsumer]_vars
    /\ \A p \in Producers : WF_vars(pc[p] # "idle" /\ ProducerStep(p))
    /\ WF_vars(pc[TermProc] # "idle" /\ TerminateStep)

\* The revision of src/unnamed/part_000 alone, with both consumers: a
\* consumer's steps are those of README's loop and of ChanCell.Next.
InitCell == Init /\ impl = "cell"

CellConsumerStep(c) ==
    \/ Receive(c)
    \/ SeeClosed(c)
    \/ NextBody(c)
    \/ NextSkip(c)
    \/ NextReturn(c)

NextCell ==
    \/ \E p \in Producers : ProducerStep(p)
    \/ TerminateStep
    \/ \E c \in Consumers : CellConsumerStep(c)

\* a consumer is inside a call of ChanCell.Next
InNext(c) == pc[c] \in {"n_body", "n_chk"}

\* Fair scheduling of a consumer while it is inside ChanCell.Next.  Nothing
\* is asked of the producers, nor of a consumer that is reading.
FairAdvance ==
    /\ InitCell
    /\ [][NextCell]_vars
    /\ \A c \in Consumers : WF_vars(InNext(c) /\ CellConsumerStep(c))

\* ================================================================ claims

\* the cell whose channel holds message m, Nil when none does
CellOf(m) ==
    IF \E k \in CellIds : \E i \in 1..Len(chans[k].buf) : chans[k].buf[i] = m
    THEN CHOOSE k \in CellIds :
             \E i \in 1..Len(chans[k].buf) : chans[k].buf[i] = m
    ELSE Nil

\* C1 (FIFO): at the step in which a consumer receives a message, every
\* message whose WithCell call had returned true before that message's call
\* began has been received already; so no message is observed before one
\* that was enqueued, call complete, ahead of it.
C1_Fifo ==
    [][\A m \in DOMAIN before : (m \in Seen' /\ m \notin Seen) => before[m] = {}]_vars

\* C1 witness: a message e_j sits in a later cell than a message e_i whose
\* call had returned before e_j's began, with a growth between the two, and
\* the consumers have begun to receive.
C1_Witness ==
    \E m \in DOMAIN before : \E m0 \in before[m] :
        /\ m[1] # m0[1]
        /\ CellOf(m0) # Nil
        /\ CellOf(m) > CellOf(m0)
        /\ m \in returned

\* C2 (no loss, no duplication): no message is received twice, and every
\* message whose WithCell call returned true is eventually received, if the
\* single consumer keeps reading: again and again (and, the messages being finitely
\* many, in the end for good) all returned messages have been received.
C2_ExactlyOnce ==
    /\ [](\A i, j \in 1..Len(observed) : observed[i] = observed[j] => i = j)
    /\ []<>(returned \subseteq Seen)

\* C2 witness: two growths have happened, and the messages of both
\* producers, also those enqueued after a growth, have all been received.
C2_Witness ==
    /\ Len(cells) >= 3
    /\ Cardinality(returned) >= 3
    /\ returned \subseteq Seen
    /\ \E m \in Seen : m[1] = "p1"
    /\ \E m \in Seen : m[1] = "p2"

\* a producer is inside a WithCell call
InCall(p) == pc[p] \notin {"idle", "waited"}

\* C3 (producers never block indefinitely): under fair scheduling every
\* WithCell call returns, whether or not the consumer reads; and in no state
\* are the producers stuck: while a call is under way, a producer or the
\* caller of Terminate has a step to take.
C3_CallsReturn ==
    /\ \A p \in Producers : []<>(~InCall(p))
    /\ []((\E p \in Producers : InCall(p)) =>
            ENABLED ((\E p \in Producers : ProducerStep(p)) \/ TerminateStep))

\* C3 witness: both producers have had all their calls return, two growths
\* have happened and the consumer has received nothing.
C3_Witness ==
    /\ \A p \in Producers : calls[p] = MaxCalls /\ ~InCall(p)
    /\ Len(cells) >= 3
    /\ observed = <<>>
    /\ \A p \in Producers : ret[p] = "true"

\* C4 (termination is absorbing): once tail.cell is nil it stays nil; it is
\* nil as soon as Terminate has unlocked; and a WithCell call begun after
\* Terminate returned reads nil and returns false.
C4_TerminationAbsorbing ==
    /\ [][tailCell = Nil => tailCell' = Nil]_vars
    /\ [](pc[TermProc] \in {"t_close", "done"} => tailCell = Nil)
    /\ [](\A p \in Producers :
            lateCall[p] => \/ pc[p] = "w_rlock"
                           \/ pc[p] = "idle" /\ ret[p] = "false")

\* C4 witness: Terminate has returned, a grow that was in flight for a full
\* cell has made its re-check since and done nothing, and a call begun
\* after Terminate returned has returned false.
C4_Witness ==
    /\ pc[TermProc] = "done"
    /\ tailCell = Nil
    /\ \E p, q \in Producers :
        /\ pc[p] = "e_unlock" /\ rd[p] # Nil /\ newCell[p] = Nil
        /\ lateCall[q] /\ pc[q] = "idle" /\ ret[q] = "false"

\* C5 (false only on termination): the step in which a WithCell call returns
\* false is a step that reads tail.cell, under the read lock, and finds nil.
C5_FalseOnlyWhenTerminated ==
    [][\A p \in Producers :
          (InCall(p) /\ ~InCall(p)' /\ ret'[p] = "false") =>
              (pc[p] = "w_rlock" /\ tailW = NoProc /\ tailCell = Nil)]_vars

\* C5 witness: a call that began before Terminate returned has returned
\* false, after growth has happened.
C5_Witness ==
    \E p \in Producers :
        /\ pc[p] = "idle" /\ ret[p] = "false" /\ ~lateCall[p]
        /\ Len(cells) >= 2

\* the number of cells whose next link is cell k
LinksTo(k) == Cardinality({s \in CellIds : cells[s].next = k})

\* C6 (one growth per overflow): a grow(s) call that finds tail.cell is no
\* longer s changes nothing of the chain, of n, of the cursors or of the
\* callbacks' effects and goes to unlock; every cell but the first is the
\* successor of exactly one cell (or about to be linked by the grow that
\* made it); n has doubled once per cell made; no Close has run twice.
C6_OneGrowthPerOverflow ==
    /\ [][\A p \in Producers :
            (pc[p] = "e_lock" /\ pc'[p] # "e_lock" /\ tailCell # rd[p]) =>
                (UNCHANGED coreVars /\ pc'[p] = "e_unlock")]_vars
    /\ [](\A k \in 2..Len(cells) :
            \/ LinksTo(k) = 1
            \/ LinksTo(k) = 0 /\ \E p \in Producers :
                                    pc[p] = "e_link" /\ newCell[p] = k)
    /\ [](LinksTo(1) = 0)
    /\ [](tailN = DefaultChanLength * 2 ^ (Len(cells) - 1))
    /\ [](\A k \in CellIds : closes[k] <= 1)

\* C6 witness: two producers have called grow for the same full cell s; one
\* made the successor and is back in the loop, the other found tail.cell
\* changed and did nothing; s has one successor and was closed once.
C6_Witness ==
    \E p, q \in Producers :
        /\ p # q
        /\ pc[q] = "e_unlock" /\ newCell[q] = Nil
        /\ pc[p] = "w_rlock" /\ rd[p] = rd[q]
        /\ cells[rd[q]].next = tailCell
        /\ closes[rd[q]] = 1
        /\ Len(cells) = rd[q] + 1

\* C7 (growth doubling): the first cell is initialised with
\* DefaultChanLength = 16 and the k-th cell made after it with 16 * 2^k.
C7_Doubling ==
    /\ initArg[1] = 16
    /\ DefaultChanLength = 16
    /\ \A k \in CellIds : initArg[k] = 16 * 2 ^ (k - 1)
    /\ \A k \in 1..(Len(cells) - 1) : initArg[k + 1] = 2 * initArg[k]

\* C7 witness: a third and a fourth cell exist, made while both producers
\* were at work.
C7_Witness ==
    /\ Len(cells) >= 4
    /\ initArg[4] = 128
    /\ \A p \in Producers : calls[p] >= 1

\* the cell the consumers are to read now: the first one not drained
\* (impl "cell"), head.cell (impl "head")
ActiveRead ==
    IF impl = "head" THEN headCell
    ELSE CHOOSE k \in CellIds :
             ~cells[k].drained /\ \A j \in 1..(k - 1) : cells[j].drained

\* a consumer's Next call returns in this step
NextReturns(c) == pc[c] \in {"n_chk", "h_with"} /\ pc'[c] = "read"

\* C8 as stated (convergent advance): two consumers whose last finished Next
\* calls were made on the same cell hold the same cell as the result.
C8_SameNextForAll ==
    \A c, d \in Consumers :
        (advFrom[c] # Nil /\ advFrom[c] = advFrom[d]) => ccell[c] = ccell[d]

\* C8 amended: a Next call returns the cell that is the active read cell at
\* the moment it returns, a cell later in the chain than the one it was
\* called on; and the active read cell only moves forward.  Calls on the
\* same cell thus return the same cell unless the read side has advanced
\* between their returns.
C8_ReturnsActiveRead ==
    /\ [][\A c \in Consumers :
            NextReturns(c) =>
                (ccell'[c] = ActiveRead' /\ ccell'[c] > ccell[c])]_vars
    /\ [][ActiveRead' >= ActiveRead]_vars

\* C8 witness: both consumers have called Next on the first cell; one got
\* the second cell, the other, later, the third, which is the active read
\* cell by then.
C8_Witness ==
    /\ advFrom["c1"] = 1 /\ advFrom["c2"] = 1
    /\ ccell["c1"] = 2 /\ ccell["c2"] = 3
    /\ pc["c2"] = "read"
    /\ ActiveRead = 3

\* C9 (Open exactly once): Open has been invoked once on every cell up to
\* the active read cell, the first one included, and on no other cell.
C9_OpenOnce ==
    \A k \in CellIds : opens[k] = IF k <= ActiveRead THEN 1 ELSE 0

\* C9 witness: both consumers have called Next on the first cell and both
\* hold the second, which was opened once; a third cell waits unopened.
C9_Witness ==
    /\ advFrom["c1"] = 1 /\ advFrom["c2"] = 1
    /\ ccell["c1"] = 2 /\ ccell["c2"] = 2
    /\ opens[2] = 1
    /\ Len(cells) >= 3 /\ opens[3] = 0

\* C10 as stated (Close exactly once): outside expand, every cell that is
\* not the tail's current cell, so accepts no new writes, has had its Close
\* invoked exactly once.
C10_ClosedWhenNotCurrent ==
    tailW = NoProc => \A k \in CellIds : k # tailCell => closes[k] = 1

\* C10 amended: Close is invoked at most once on a cell: once on each cell
\* that growth has given a successor (by the time expand unlocks), and never
\* on a cell without successor, the cell current at Terminate included.
\* The cell's channel is closed exactly when Close was invoked.
C10_CloseOnceOnGrowth ==
    \A k \in CellIds :
        /\ closes[k] = IF /\ cells[k].next # Nil
                          /\ ~\E p \in Producers :
                                 pc[p] \in {"e_pub", "e_close"} /\ rd[p] = k
                       THEN 1 ELSE 0
        /\ chans[k].closed = (closes[k] = 1)

\* C10 witness: Terminate has returned; the cells before the last were
\* closed once each by growth, the last one was never closed.
C10_Witness ==
    /\ pc[TermProc] = "done"
    /\ Len(cells) >= 3
    /\ \A k \in 1..(Len(cells) - 1) : closes[k] = 1
    /\ closes[Len(cells)] = 0
    /\ \A p \in Producers : ~InCall(p)

\* C11 (Wait observes termination only): the step in which Wait returns is
\* taken with Terminated closed; once Terminated is closed a caller inside
\* Wait has its return step to take, whatever the buffers hold; whenever
\* Terminated is closed tail.cell is nil; and a WithCell call begun after a
\* Wait has returned began after Terminate returned, so it only reads nil
\* and returns false.
C11_WaitObservesTermination ==
    /\ [][\A p \in Producers :
            (pc[p] = "wait" /\ pc'[p] # "wait") =>
                (Terminated /\ pc'[p] = "waited")]_vars
    /\ [](\A p \in Producers :
            (pc[p] = "wait" /\ Terminated) => ENABLED WaitReturn(p))
    /\ [](Terminated => (tailCell = Nil /\ pc[TermProc] = "done"))
    /\ [][\A p \in Producers :
            (pc[p] = "waited" /\ pc'[p] = "w_rlock") => lateCall'[p]]_vars
    /\ [](\A p \in Producers :
            lateCall[p] => \/ pc[p] = "w_rlock"
                           \/ pc[p] \in {"idle", "wait", "waited"}
                              /\ ret[p] = "false")

\* C11 witness: a Wait has returned while messages are still in the
\* buffers, and a call begun after termination has returned false.
C11_Witness ==
    /\ \E p \in Producers : pc[p] = "waited" /\ calls[p] >= 1
    /\ \E q \in Producers : lateCall[q] /\ pc[q] = "idle" /\ ret[q] = "false"
    /\ \E k \in CellIds : chans[k].buf # <<>>
    /\ Len(cells) >= 2

\* C12 (Terminate leaves the chain intact): a step of Terminate changes
\* nothing but tail.cell, the tail's lock, Terminated and Terminate's own
\* position: cells (next, drained), channels, Open and Close counts, n, the
\* client's fields and what the consumer holds stay as they are; and once
\* Terminate has returned, a consumer that keeps reading gets to receive
\* every message whose call returned true.
C12_TerminateLeavesChain ==
    /\ [][(pc'[TermProc] # pc[TermProc] /\ pc'[TermProc] # "panic") =>
            UNCHANGED <<cells, chans, initArg, opens, closes, tailN,
                        actorInner, actorChan, headCell, headW, tailR,
                        consVars, observed, returned>>]_vars
    /\ [][pc'[TermProc] # pc[TermProc] =>
            (tailCell' \in {tailCell, Nil} /\ (Terminated => Terminated'))]_vars
    /\ (pc[TermProc] = "done") ~> (returned \subseteq Seen)

\* C12 witness: Terminate has returned after a growth, and messages are
\* still in the buffers of the chain it left.
C12_Witness ==
    /\ pc[TermProc] = "done"
    /\ Len(cells) >= 2
    /\ cells[1].next = 2
    /\ \E k \in CellIds : chans[k].buf # <<>> /\ chans[k].buf[1] \in returned
    /\ observed = <<>>

\* a grow that has made cell k and has not yet published it as tail.cell
Growing(k) ==
    \E p \in Producers : pc[p] \in {"e_link", "e_pub"} /\ newCell[p] = k

\* C13 (chain shape): a next link that is set never changes; the step that
\* sets the next link of a cell is taken while that cell is tail.cell, and
\* sets it to the cell made last, which no cell links to and which has no
\* successor itself; every link goes from a cell to the cell made right
\* after it, so the chain is acyclic and runs through all cells in the
\* order they were made; and tail.cell, unless nil, is the last cell of the
\* chain (the last but one while a grow is between making the new cell and
\* publishing it); Terminate cuts off the last cell, and no cell is made
\* afterwards.
C13_ChainShape ==
    /\ [][\A k \in CellIds :
            cells[k].next # Nil => cells'[k].next = cells[k].next]_vars
    /\ [][\A k \in CellIds :
            (cells[k].next = Nil /\ cells'[k].next # Nil) =>
                /\ tailCell = k
                /\ cells'[k].next = Len(cells)
                /\ cells'[k].next # k
                /\ LinksTo(Len(cells)) = 0
                /\ cells[Len(cells)] = NewCell]_vars
    /\ [](\A k \in CellIds : cells[k].next \in {Nil, k + 1})
    /\ [](\A k \in 1..(Len(cells) - 1) :
            cells[k].next = Nil => (k = Len(cells) - 1 /\ Growing(k + 1)))
    /\ [](cells[Len(cells)].next = Nil)
    /\ [](tailCell # Nil =>
            \/ tailCell = Len(cells) /\ ~Growing(Len(cells))
            \/ tailCell = Len(cells) - 1 /\ Growing(Len(cells)))
    /\ [][(tailCell # Nil /\ tailCell' = Nil) =>
            (tailCell = Len(cells) /\ cells[tailCell].next = Nil)]_vars
    /\ [][tailCell = Nil => Len(cells') = Len(cells)]_vars

\* C13 witness: the chain has grown twice; the second grow has linked and
\* published the third cell and is about to unlock.
C13_Witness ==
    /\ Len(cells) = 3
    /\ cells[1].next = 2 /\ cells[2].next = 3 /\ cells[3].next = Nil
    /\ tailCell = 3
    /\ \E p \in Producers : pc[p] = "e_unlock" /\ newCell[p] = 3 /\ rd[p] = 2

\* C14 (advance cannot fail or hang), for ChanCell.Next: the cell Next runs
\* on has a successor, so Next dereferences no nil; a consumer inside Next
\* always has a step to take, whoever holds the tail's lock, and its steps
\* leave the tail's lock and tail.cell alone; a step of Next under a cell's
\* lock changes that cell's fields only; each recursion moves to the
\* successor, a later cell of the chain, so there are fewer recursions than
\* cells; Next returns a cell of the chain; and under fair scheduling of
\* the consumer every call of Next returns.
C14_AdvanceReturns ==
    /\ [](\A c \in Consumers :
            pc[c] = "n_body" =>
                (recv[c] \in CellIds /\ cells[recv[c]].next # Nil))
    /\ [](\A c \in Consumers : InNext(c) => ENABLED CellConsumerStep(c))
    /\ [][\A c \in Consumers :
            (InNext(c) /\ pc'[c] # pc[c]) =>
                /\ UNCHANGED <<tailW, tailR, tailCell, tailN>>
                /\ \A k \in CellIds \ {recv[c]} : cells'[k] = cells[k]
                /\ pc'[c] \in {"n_body", "n_chk", "read"}]_vars
    /\ [][\A c \in Consumers :
            (pc[c] = "n_chk" /\ pc'[c] = "n_body") =>
                (recv'[c] = cells[recv[c]].next /\ recv'[c] > recv[c])]_vars
    /\ [][\A c \in Consumers :
            (InNext(c) /\ pc'[c] = "read") =>
                (ccell'[c] \in CellIds /\ ccell'[c] > ccell[c])]_vars
    /\ \A c \in Consumers : []<>(~InNext(c))

\* C14 witness: a consumer called Next on the first cell, has gone into the
\* second cell's Next and is about to return the third, while a producer
\* holds the tail's write lock in a grow.
C14_Witness ==
    \E c \in Consumers :
        /\ pc[c] = "n_chk"
        /\ ccell[c] = 1 /\ recv[c] = 2 /\ nxt[c] = 3
        /\ tailW \in Producers

\* the cell whose next link is cell k (Nil for the first cell)
Pred(k) ==
    IF \E s \in CellIds : cells[s].next = k
    THEN CHOOSE s \in CellIds : cells[s].next = k
    ELSE Nil

\* C15 (seal before the successor accepts writes): whenever WithCell is
\* about to invoke, or has invoked, the attempt on a cell that is the
\* successor of a cell s, Close of s has completed; so has it whenever the
\* successor's buffer holds a message; and expand does publish the
\* successor as tail.cell before it calls Close, under the write lock.
C15_SealBeforeSuccessorWrites ==
    /\ [](\A p \in Producers :
            (pc[p] \in {"w_call", "w_runlock"} /\ rd[p] # 1) =>
                (Pred(rd[p]) # Nil /\ closes[Pred(rd[p])] = 1
                 /\ chans[Pred(rd[p])].closed))
    /\ [](\A k \in CellIds :
            (k # 1 /\ chans[k].buf # <<>>) =>
                (Pred(k) # Nil /\ chans[Pred(k)].closed))
    /\ [](\A p \in Producers :
            pc[p] = "e_close" =>
                (tailCell = newCell[p] /\ cells[rd[p]].next = newCell[p]
                 /\ tailW = p /\ tailR = {}))

\* C15 witness: a grow has published the third cell and has not yet called
\* Close on the second, whose buffer took a message after the first was
\* closed; the other producer is waiting for the read lock.
C15_Witness ==
    \E p, q \in Producers :
        /\ pc[q] = "e_close" /\ rd[q] = 2 /\ tailCell = 3
        /\ closes[2] = 0 /\ closes[1] = 1
        /\ pc[p] = "w_rlock"

\* expand's tail.Lock() can be taken by producer q
CanLock(q) == ENABLED (ExpandNew(q) \/ ExpandSkip(q))

\* C16 as stated (a blocked attempt does not stall growth): while the
\* attempt of one producer is in progress, a grow another producer has
\* called for a full cell can take the exclusive lock.
C16_GrowNotStalledByAttempt ==
    \A p, q \in Producers :
        (pc[p] = "w_call" /\ pc[q] = "e_lock") => CanLock(q)

\* C16 amended: WithCell holds the tail's read lock from its read of
\* tail.cell until the attempt has returned; while an attempt is in
\* progress nobody holds the write lock and no grow can take it, so a grow
\* waits for every attempt in progress; it can take the lock as soon as no
\* reader and no writer holds it.
C16_GrowWaitsForAttempt ==
    /\ \A p \in Producers : (p \in tailR) <=> (pc[p] \in {"w_call", "w_runlock"})
    /\ tailR # {} =>
          (tailW = NoProc /\ \A q \in Producers : pc[q] = "e_lock" => ~CanLock(q))
    /\ \A q \in Producers :
          (pc[q] = "e_lock" /\ tailR = {} /\ tailW = NoProc) => CanLock(q)

\* C16 witness: one producer found the second cell full and has called
\* grow; the other holds the read lock, its attempt on that cell in
\* progress.
C16_Witness ==
    \E p, q \in Producers :
        /\ pc[p] = "w_call" /\ rd[p] = 2
        /\ pc[q] = "e_lock" /\ rd[q] = 2
        /\ tailCell = 2
        /\ tailR = {p}

\* a producer is inside expand
InExpand(p) == pc[p] \in {"e_lock", "e_link", "e_pub", "e_close", "e_unlock"}

\* C17 (WithCell's retry protocol): the attempt is invoked on the cell read
\* from tail.cell in the same iteration, which still is tail.cell, and with
\* the iteration's fun; after (true, _) WithCell returns true and nothing
\* of the chain changes; after (false, nil) it calls expand for the cell the
\* attempt was given and keeps its fun through expand into the next
\* iteration; after (false, continuation) it goes to the next iteration with
\* the continuation as fun and nothing of the chain changes.  A cell is
\* added only by a producer whose last attempt reported (false, nil), for
\* the cell that attempt was given.
C17_RetryProtocol ==
    /\ [](\A p \in Producers :
            pc[p] \in {"w_call", "w_runlock"} =>
                (rd[p] = tailCell /\ rd[p] # Nil /\ fun[p] # NilFun))
    /\ [][\A p \in Producers :
            (pc[p] = "w_call" /\ pc'[p] = "w_runlock") =>
                /\ fun'[p] = fun[p] /\ rd'[p] = rd[p]
                /\ ok'[p] => (newFun'[p] = NilFun
                              /\ chans'[rd[p]].buf = Append(chans[rd[p]].buf, MsgOf(p)))
                /\ ~ok'[p] => chans' = chans]_vars
    /\ [][\A p \in Producers :
            (pc[p] = "w_runlock" /\ pc'[p] # "w_runlock" /\ ok[p]) =>
                /\ pc'[p] = "idle" /\ ret'[p] = "true"
                /\ UNCHANGED coreVars]_vars
    /\ [][\A p \in Producers :
            (pc[p] = "w_runlock" /\ pc'[p] # "w_runlock"
               /\ ~ok[p] /\ newFun[p] = NilFun) =>
                /\ pc'[p] = "e_lock" /\ rd'[p] = rd[p] /\ fun'[p] = fun[p]
                /\ UNCHANGED coreVars]_vars
    /\ [][\A p \in Producers :
            (pc[p] = "w_runlock" /\ pc'[p] # "w_runlock"
               /\ ~ok[p] /\ newFun[p] # NilFun) =>
                /\ pc'[p] = "w_rlock" /\ fun'[p] = newFun[p]
                /\ UNCHANGED coreVars]_vars
    /\ [][\A p \in Producers :
            (InExpand(p) /\ pc'[p] # "panic") =>
                /\ fun'[p] = fun[p] /\ rd'[p] = rd[p]
                /\ pc'[p] \in {"e_lock", "e_link", "e_pub", "e_close",
                                "e_unlock", "w_rlock"}]_vars
    /\ [][Len(cells') # Len(cells) =>
            \E p \in Producers :
                /\ pc[p] = "e_lock" /\ pc'[p] = "e_link"
                /\ ~ok[p] /\ newFun[p] = NilFun
                /\ rd[p] = tailCell
                /\ Len(cells') = Len(cells) + 1]_vars

\* C17 witness: a producer that called WithCell with the closure of a cell
\* no longer current has been handed a continuation, while the other found
\* the current cell full and has called expand for it.
C17_Witness ==
    \E p, q \in Producers :
        /\ pc[p] = "w_runlock" /\ ~ok[p] /\ newFun[p] = ReadmeF
        /\ fun[p] # ReadmeF /\ fun[p] # rd[p]
        /\ pc[q] = "e_lock" /\ rd[q] = tailCell /\ rd[q] = 2
        /\ returned # {}

\* C18 (skip-ahead on advance), for ChanCell.Next: the step of Next under
\* the lock of cell s leaves s drained, and invokes Open on the successor
\* of s exactly if s was not drained; Next goes into the successor's Next
\* exactly if it reads the successor's drained flag as set, and returns the
\* successor otherwise; so the cell returned is not drained when examined,
\* and every cell from the one Next was called on up to it is drained: it
\* is the first cell not drained, however many cells lie between.  No cell
\* is opened twice, and a drained flag is never reset.
C18_SkipAhead ==
    /\ [][\A c \in Consumers :
            (pc[c] = "n_body" /\ pc'[c] = "n_chk") =>
                LET s == recv[c]
                    next == cells[s].next
                IN /\ cells'[s].drained
                   /\ nxt'[c] = next
                   /\ opens'[next] = opens[next] + (IF cells[s].drained THEN 0 ELSE 1)
                   /\ \A k \in CellIds \ {next} : opens'[k] = opens[k]]_vars
    /\ [][\A c \in Consumers :
            (pc[c] = "n_chk" /\ pc'[c] = "n_body") =>
                (cells[nxt[c]].drained /\ recv'[c] = nxt[c])]_vars
    /\ [][\A c \in Consumers :
            (pc[c] = "n_chk" /\ pc'[c] = "read") =>
                /\ ~cells[nxt[c]].drained
                /\ ccell'[c] = nxt[c]
                /\ \A j \in ccell[c]..(nxt[c] - 1) : cells[j].drained
                /\ nxt[c] > ccell[c]]_vars
    /\ [][\A k \in CellIds : cells[k].drained => cells'[k].drained]_vars
    /\ [](\A k \in CellIds : opens[k] <= 1)

\* C18 witness: a consumer called Next on the first cell when the other
\* had drained the first three, and was returned the fourth.
C18_Witness ==
    \E c \in Consumers :
        /\ pc[c] = "read"
        /\ advFrom[c] = 1 /\ ccell[c] = 4
        /\ \A k \in 1..3 : cells[k].drained
        /\ \A k \in 1..4 : opens[k] = 1

\* the cell producers write to: tail.cell, or the last cell of the chain
\* once Terminate has set tail.cell to nil
TailSegment == IF tailCell # Nil THEN tailCell ELSE Len(cells)

\* C19 (the successor exists before the seal is visible): a cell whose
\* Close has been invoked has its next link set and is not tail.cell; a
\* consumer that has seen a cell closed and calls Next on it finds a
\* successor, so no Next dereferences nil and no goroutine panics; and
\* neither the cell the consumers are to read nor a cell a consumer holds
\* is ahead of the tail's cell in the chain.
C19_SuccessorBeforeSeal ==
    /\ [](\A k \in CellIds :
            (closes[k] >= 1 \/ chans[k].closed) =>
                (cells[k].next # Nil /\ tailCell # k))
    /\ [](\A c \in Consumers :
            pc[c] \in {"n_body", "h_lock", "h_body"} =>
                (recv[c] \in CellIds /\ cells[recv[c]].next # Nil))
    /\ [](~Crashed)
    /\ [](ActiveRead \in CellIds /\ ActiveRead <= TailSegment)
    /\ [](\A c \in Consumers : ccell[c] # Nil => ccell[c] <= TailSegment)

\* C19 witness: a consumer has seen the second cell closed and is in Next
\* on it, while the grow that closed it has not yet unlocked the tail.
C19_Witness ==
    \E c \in Consumers, p \in Producers :
        /\ pc[c] \in {"n_body", "h_body"}
        /\ recv[c] = 2 /\ rd[p] = 2
        /\ pc[p] = "e_unlock" /\ tailW = p
        /\ cells[2].next = newCell[p]
        /\ tailCell = newCell[p]

\* an attempt of producer p on cell k is about to be invoked or has been
\* invoked and WithCell has not yet unlocked
AttemptOn(p, k) == pc[p] \in {"w_call", "w_runlock"} /\ rd[p] = k

\* C20 (no write into a sealed cell): while an attempt on a cell is in
\* progress, Close of that cell has not been invoked, its channel is open
\* and no expand holds the write lock; the step that invokes Close on a
\* cell is taken under the write lock with no attempt in progress on any
\* cell; a message is only ever appended to the open channel of the cell
\* that is tail.cell, also by an attempt that started with the closure of
\* a cell no longer current; no send on a closed channel happens.
C20_NoWriteIntoSealed ==
    /\ [](\A p \in Producers : \A k \in CellIds :
            AttemptOn(p, k) =>
                /\ closes[k] = 0 /\ ~chans[k].closed
                /\ tailW = NoProc /\ p \in tailR
                /\ \A q \in Producers : ~InExpand(q) \/ pc[q] = "e_lock")
    /\ [][\A k \in CellIds :
            closes'[k] # closes[k] =>
                /\ tailW \in Producers /\ pc[tailW] = "e_close"
                /\ rd[tailW] = k /\ tailR = {}
                /\ \A p \in Producers : \A j \in CellIds : ~AttemptOn(p, j)]_vars
    /\ [][\A k \in CellIds :
            Len(chans'[k].buf) > Len(chans[k].buf) =>
                /\ k = tailCell /\ ~chans[k].closed /\ closes[k] = 0
                /\ \E p \in Producers :
                      AttemptOn(p, k) /\ pc[p] = "w_call"
                      /\ InnerOf(fun[p]) = k]_vars
    /\ [](~Crashed)

\* C20 witness: a producer called WithCell with the closure of the first
\* cell, which is closed by now; its attempt is about to be invoked on the
\* second cell, the current one, which holds a message already.
C20_Witness ==
    \E p \in Producers :
        /\ pc[p] = "w_call" /\ fun[p] = 1 /\ rd[p] = 2
        /\ chans[1].closed /\ closes[1] = 1
        /\ tailCell = 2 /\ chans[2].buf # <<>>

====
